---- MODULE Spec2Model ----
(***************************************************************************)
(* A/B test admin views of wagtail_ab_testing (views.py): the add_form    *)
(* and progress handlers, the temporary ingestion helpers and the         *)
(* statistics read model that progress computes on a GET.                 *)
(*                                                                         *)
(* The AbTest model class (models.py) is not part of the sources at hand: *)
(* its methods (start, pause, finish, add_participant, log_conversion,    *)
(* get_current_for_page, total_running_duration) are modelled from the    *)
(* specification, as plain effects; every guard of the model below is a   *)
(* guard of views.py.                                                      *)
(*                                                                         *)
(* Time is counted in whole hours since an epoch: Date(t) is the calendar *)
(* day of t and Hour(t) its hour of day.                                   *)
(***************************************************************************)
EXTENDS Integers, Sequences, FiniteSets, TLC

VARIABLES
    ab_tests,       \* the AbTest table: a sequence of rows, id = index
    hourly_logs,    \* the AbTestHourlyLog table: a set of rows
    now,            \* timezone.now(), in hours
    request,        \* the last request a handler took
    response,       \* what that handler returned to its caller
    requests,       \* the requests in flight (interleaved specification)
    running_calls   \* history: per test, add_participant calls made while Running

vars == <<ab_tests, hourly_logs, now, request, response, requests, running_calls>>

-----------------------------------------------------------------------------
(* Bounds of the model *)

MaxTests == 2          \* rows of the AbTest table
MaxPages == 2          \* pages
MaxDate == 1           \* the clock stops at day MaxDate
MaxHour == 1           \* hours of a day at which the clock is observed
MaxSampleTens == 1     \* sample sizes are 0, 10, .., 10 * MaxSampleTens
MaxRows == 2           \* rows of a drawn AbTestHourlyLog table
MaxConversions == 1    \* conversions of a drawn row
MaxEvents == 2         \* participants and conversions the helpers record
MaxBack == 1           \* days and hours a test conversion is dated back
MaxWorkers == 2        \* requests in flight at once

Pages == 1..MaxPages
SampleSizes == {10 * k : k \in 0..MaxSampleTens}
Booleans == {TRUE, FALSE}

-----------------------------------------------------------------------------
(* Values *)

DRAFT == "draft"
RUNNING == "running"
PAUSED == "paused"
FINISHED == "finished"
Statuses == {DRAFT, RUNNING, PAUSED, FINISHED}

CONTROL == "control"
TREATMENT == "treatment"
Variants == {CONTROL, TREATMENT}

\* Python's None and a present value, as sequences of length 0 and 1
None == <<>>
Some(x) == <<x>>

Date(t) == t \div 24
Hour(t) == t % 24

TestIds == 1..Len(ab_tests)

-----------------------------------------------------------------------------
(* The AbTest model (models.py), modelled from the specification *)

\* form.save(): a new row, in Draft, for the page
NewAbTest(page, sample_size) ==
    [page |-> page, status |-> DRAFT, sample_size |-> sample_size,
     first_started_at |-> None, last_started_at |-> None,
     finished_at |-> None, winning_variant |-> None]

\* AbTest.start(): into Running; first_started_at is set once,
\* last_started_at on every start
start(t, time) ==
    [t EXCEPT !.status = RUNNING,
              !.first_started_at = IF @ = None THEN Some(time) ELSE @,
              !.last_started_at = Some(time)]

\* AbTest.pause(): into Paused
pause(t) == [t EXCEPT !.status = PAUSED]

\* AbTest.finish(cancel=True): into Finished; a cancelled test gets no winner
finish(t, time) ==
    [t EXCEPT !.status = FINISHED, !.finished_at = Some(time)]

\* AbTest.objects.get_current_for_page(page): the ids of the page's tests
\* that are in Draft, Running or Paused
get_current_for_page(tests, page) ==
    {i \in 1..Len(tests) :
        tests[i].page = page /\ tests[i].status \in {DRAFT, RUNNING, PAUSED}}

\* The whole days since the test was first started, pauses included
total_running_duration_days_SinceFirst(t, time) ==
    IF t.first_started_at = None THEN 0
    ELSE (time - t.first_started_at[1]) \div 24

\* AbTest.total_running_duration().days: whole days since last_started_at
total_running_duration_days(t, time) ==
    IF t.last_started_at = None THEN 0
    ELSE (time - t.last_started_at[1]) \div 24

\* The bucket of a test at a time for a variant
Bucket(id, time, variant) ==
    [ab_test |-> id, date |-> Date(time), hour |-> Hour(time), variant |-> variant]

BucketOf(log) ==
    [ab_test |-> log.ab_test, date |-> log.date, hour |-> log.hour,
     variant |-> log.variant]

\* The atomic insert-or-increment of one bucket
increment_stats(logs, id, variant, time, participants, conversions) ==
    LET b == Bucket(id, time, variant)
        old == {l \in logs : BucketOf(l) = b}
    IN  IF old = {}
        THEN logs \cup {[ab_test |-> id, date |-> b.date, hour |-> b.hour,
                         variant |-> variant, participants |-> participants,
                         conversions |-> conversions]}
        ELSE (logs \ old) \cup
             {[l EXCEPT !.participants = @ + participants,
                        !.conversions = @ + conversions] : l \in old}

\* AbTest.add_participant(variant): one participant in the bucket of now
add_participant(logs, id, variant, time) ==
    increment_stats(logs, id, variant, time, 1, 0)

\* AbTest.log_conversion(variant, time): one conversion in the bucket of time
log_conversion(logs, id, variant, time) ==
    increment_stats(logs, id, variant, time, 0, 1)

-----------------------------------------------------------------------------
(* The statistics read model of progress (views.py 239-313) *)

RECURSIVE SumOf(_, _)
SumOf(rows, field) ==
    IF rows = {} THEN 0
    ELSE LET l == CHOOSE x \in rows : TRUE
         IN  l[field] + SumOf(rows \ {l}, field)

\* Sum(field, filter=Q(variant=variant)) over the test's rows: None when
\* no row matches
Aggregate(logs, id, variant, field) ==
    LET rows == {l \in logs : l.ab_test = id /\ l.variant = variant}
    IN  IF rows = {} THEN None ELSE Some(SumOf(rows, field))

\* Python's "x or 0"
OrZero(x) == IF x = None THEN 0 ELSE x[1]

control_participants(logs, id) == OrZero(Aggregate(logs, id, CONTROL, "participants"))
control_conversions(logs, id) == OrZero(Aggregate(logs, id, CONTROL, "conversions"))
treatment_participants(logs, id) == OrZero(Aggregate(logs, id, TREATMENT, "participants"))
treatment_conversions(logs, id) == OrZero(Aggregate(logs, id, TREATMENT, "conversions"))

\* current_sample_size of the control's participants only
current_sample_size_ControlOnly(logs, id) == control_participants(logs, id)

current_sample_size(logs, id) ==
    control_participants(logs, id) + treatment_participants(logs, id)

\* estimated_completion_date without the status check of line 253
estimated_completion_date_AnyStatus(t, logs, id, time) ==
    LET current == current_sample_size(logs, id)
        days == total_running_duration_days(t, time)
    IN  IF current # 0 /\ days > 0
        THEN Some(Date(time) + ((t.sample_size - current) * days) \div current)
        ELSE None

\* The date plus timedelta(days=(sample_size - current) / participants_per_day):
\* adding a timedelta to a date adds its whole days, rounded down (timedelta
\* rounds the float to microseconds, which gives the exact quotient here)
estimated_completion_date(t, logs, id, time) ==
    LET current == current_sample_size(logs, id)
        days == total_running_duration_days(t, time)
    IN  IF t.status = RUNNING /\ current # 0 /\ days > 0
        THEN Some(Date(time) + ((t.sample_size - current) * days) \div current)
        ELSE None

\* int(conversions / participants * 100) if participants else 0; over the
\* counts of this model the float product truncates to the exact quotient
conversions_percent(conversions, participants) ==
    IF participants # 0 THEN (conversions * 100) \div participants ELSE 0

\* order_by('date', 'hour'): the orders the database may return the test's
\* rows in; rows of one date and hour come in any order
OrderByDateHour(logs, id) ==
    LET rows == {l \in logs : l.ab_test = id}
        n == Cardinality(rows)
    IN  {s \in [1..n -> rows] :
            /\ \A i, j \in 1..n : i # j => s[i] # s[j]
            /\ \A i \in 1..(n - 1) :
                  \/ s[i].date < s[i + 1].date
                  \/ s[i].date = s[i + 1].date /\ s[i].hour <= s[i + 1].hour}

\* The loop of lines 274-287 as a single step: one entry a row whose date is
\* new, dated as the row
FillDates_OneEntry(time_series, date, log_date, control, treatment) ==
    IF date = None \/ date[1] < log_date
    THEN [time_series |-> Append(time_series,
                                 [date |-> log_date, control |-> control,
                                  treatment |-> treatment]),
          date |-> Some(log_date)]
    ELSE [time_series |-> time_series, date |-> date]

\* The while loop of lines 274-287: date moves forward to the row's date,
\* one entry a day
RECURSIVE FillDates(_, _, _, _, _)
FillDates(time_series, date, log_date, control, treatment) ==
    IF date = None \/ date[1] < log_date
    THEN LET d == IF date = None THEN log_date ELSE date[1] + 1
         IN  FillDates(Append(time_series,
                              [date |-> d, control |-> control,
                               treatment |-> treatment]),
                       Some(d), log_date, control, treatment)
    ELSE [time_series |-> time_series, date |-> date]

\* The for loop of lines 267-287 from row i of the ordered rows on
RECURSIVE TimeSeriesFrom(_, _, _, _, _, _)
TimeSeriesFrom(ordered, i, time_series, control, treatment, date) ==
    IF i > Len(ordered) THEN time_series
    ELSE LET log == ordered[i]
             c == IF log.variant = CONTROL THEN control + log.conversions
                  ELSE control
             t == IF log.variant = CONTROL THEN treatment
                  ELSE treatment + log.conversions
             filled == FillDates(time_series, date, log.date, c, t)
         IN  TimeSeriesFrom(ordered, i + 1, filled.time_series, c, t, filled.date)

time_series(ordered) == TimeSeriesFrom(ordered, 1, <<>>, 0, 0, None)

-----------------------------------------------------------------------------
(* The action menu of the progress page (views.py 135-201) *)

\* The names of the menu items, in the order of lines 175-180
MenuItemNames ==
    <<"action-start-ab-test", "action-restart-ab-test", "action-end-ab-test",
      "action-pause-ab-test">>

\* is_shown with the item to end the test shown in every status
is_shown_EndAlways(name, status) ==
    CASE name = "action-start-ab-test" -> status = DRAFT
      [] name = "action-restart-ab-test" -> status = PAUSED
      [] name = "action-end-ab-test" -> TRUE
      [] name = "action-pause-ab-test" -> status = RUNNING

\* is_shown of the menu item of a name, for the status of context['ab_test']
is_shown(name, status) ==
    CASE name = "action-start-ab-test" -> status = DRAFT
      [] name = "action-restart-ab-test" -> status = PAUSED
      [] name = "action-end-ab-test" -> status \in {DRAFT, RUNNING, PAUSED}
      [] name = "action-pause-ab-test" -> status = RUNNING

\* AbTestActionMenu.__init__: the items shown, the first of them popped as
\* the default item, None when no item is shown
AbTestActionMenu(status) ==
    LET Shown(name) == is_shown(name, status)
        menu_items == SelectSeq(MenuItemNames, Shown)
    IN  IF menu_items = <<>>
        THEN [default_item |-> None, menu_items |-> <<>>]
        ELSE [default_item |-> Some(Head(menu_items)),
              menu_items |-> Tail(menu_items)]

-----------------------------------------------------------------------------
(* Responses *)

NoContext ==
    [current_sample_size |-> 0, current_sample_size_percent |-> 0,
     control_conversions |-> 0, control_participants |-> 0,
     control_conversions_percent |-> 0,
     treatment_conversions |-> 0, treatment_participants |-> 0,
     treatment_conversions_percent |-> 0,
     control_is_winner |-> FALSE, treatment_is_winner |-> FALSE,
     estimated_completion_date |-> None, time_series |-> <<>>,
     action_menu |-> [default_item |-> None, menu_items |-> <<>>]]

\* kind: "none" (no request yet), "redirect", "render", or the exception raised;
\* message: the level of the message left for the user, or "none"
Response(kind, message, context) ==
    [kind |-> kind, message |-> message, context |-> context]

\* A request: the view, the test or the page it names, the keys of its POST
Request(view, method, id, page, post) ==
    [view |-> view, method |-> method, ab_test |-> id, page |-> page,
     post |-> post]

-----------------------------------------------------------------------------
(* add_form (views.py 95-132) with add_ab_test_checks (views.py 51-71) *)

\* add_ab_test_checks without the check of lines 61-65
add_ab_test_checks_NoCurrentCheck(tests, page, can_edit, has_perm, page_ready) ==
    IF ~can_edit THEN "PermissionDenied"
    ELSE IF ~has_perm THEN "PermissionDenied"
    ELSE IF ~page_ready THEN "not_live_with_draft"
    ELSE "ok"

\* The outcome of the checks: an exception, an error redirect, or "ok"
add_ab_test_checks(tests, page, can_edit, has_perm, page_ready) ==
    IF ~can_edit THEN "PermissionDenied"
    ELSE IF ~has_perm THEN "PermissionDenied"
    ELSE IF get_current_for_page(tests, page) # {} THEN "already_running"
    ELSE IF ~page_ready THEN "not_live_with_draft"
    ELSE "ok"

\* What the checks' outcome makes add_form return
ChecksResponse(outcome) ==
    IF outcome = "PermissionDenied"
    THEN Response("PermissionDenied", "none", NoContext)
    ELSE Response("redirect", "error", NoContext)

\* The requests to add_form; what a request does not get to read is left
\* at one value
AddFormRequests ==
    {r \in [page : Pages, can_edit : Booleans, has_perm : Booleans,
            page_ready : Booleans, method : {"GET", "POST"},
            form_valid : Booleans, sample_size : SampleSizes,
            start_posted : Booleans] :
        /\ ~r.can_edit => r.has_perm
        /\ ~(r.can_edit /\ r.has_perm) => r.page_ready /\ r.method = "GET"
        /\ r.method = "GET" => ~r.form_valid
        /\ ~r.form_valid => r.sample_size = 0 /\ ~r.start_posted}

\* The requests to add_form of the specifications that follow several
\* tests: their valid forms all ask for the largest sample size
SameSizeAddFormRequests ==
    {r \in AddFormRequests : r.form_valid => r.sample_size = 10 * MaxSampleTens}

\* Lines 103-112: the valid POST saves the test and, on 'start', starts it
add_form_save(tests, page, sample_size, start_posted, time) ==
    LET created == NewAbTest(page, sample_size)
    IN  Append(tests, IF start_posted THEN start(created, time) ELSE created)

AddForm(r) ==
    LET outcome == add_ab_test_checks(ab_tests, r.page, r.can_edit, r.has_perm,
                                      r.page_ready)
    IN  /\ IF outcome # "ok"
           THEN /\ response' = ChecksResponse(outcome)
                /\ UNCHANGED ab_tests
           ELSE IF r.method = "POST" /\ r.form_valid
           THEN /\ Len(ab_tests) < MaxTests
                /\ ab_tests' = add_form_save(ab_tests, r.page, r.sample_size,
                                             r.start_posted, now)
                /\ response' = Response("redirect", "none", NoContext)
           ELSE /\ response' = Response("render", "none", NoContext)
                /\ UNCHANGED ab_tests
        /\ request' = Request("add_form", r.method, 0, r.page,
                              IF r.method = "POST" /\ r.start_posted
                              THEN {"start"} ELSE {})
        /\ running_calls' = IF Len(ab_tests') > Len(ab_tests)
                            THEN Append(running_calls, 0) ELSE running_calls
        /\ UNCHANGED <<hourly_logs, now, requests>>

-----------------------------------------------------------------------------
(* progress, on a POST (views.py 211-237) *)

ActionKeys ==
    {"action-start-ab-test", "action-restart-ab-test", "action-end-ab-test",
     "action-pause-ab-test"}

\* The POSTs made: one known key, no known key, every key at once
Posts == {{k} : k \in ActionKeys} \cup {{}, ActionKeys}

\* The status checks of lines 214, 222 and 228, each with a mutant: a start
\* that only refuses a running test, a pause that also takes a draft
CanStart_NotRunning(status) == status # RUNNING
CanStart(status) == status \in {DRAFT, PAUSED}
CanEnd(status) == status \in {DRAFT, RUNNING, PAUSED}
CanPause_OrDraft(status) == status \in {RUNNING, DRAFT}
CanPause(status) == status = RUNNING

\* The branch taken for the keys of request.POST, applied to the loaded
\* test: the test as saved, and the message left
progress_post(t, post, time) ==
    IF "action-start-ab-test" \in post \/ "action-restart-ab-test" \in post
    THEN IF CanStart(t.status)
         THEN [ab_test |-> start(t, time), message |-> "success"]
         ELSE [ab_test |-> t, message |-> "error"]
    ELSE IF "action-end-ab-test" \in post
    THEN IF CanEnd(t.status)
         THEN [ab_test |-> finish(t, time), message |-> "none"]
         ELSE [ab_test |-> t, message |-> "error"]
    ELSE IF "action-pause-ab-test" \in post
    THEN IF CanPause(t.status)
         THEN [ab_test |-> pause(t), message |-> "none"]
         ELSE [ab_test |-> t, message |-> "error"]
    ELSE [ab_test |-> t, message |-> "error"]

ProgressPost(id, post) ==
    LET done == progress_post(ab_tests[id], post, now)
    IN  /\ ab_tests' = [ab_tests EXCEPT ![id] = done.ab_test]
        /\ request' = Request("progress", "POST", id, ab_tests[id].page, post)
        /\ response' = Response("redirect", done.message, NoContext)
        /\ UNCHANGED <<hourly_logs, now, requests, running_calls>>

-----------------------------------------------------------------------------
(* progress, on a GET (views.py 239-313) *)

\* The template context of lines 289-313 for one order of the rows
progress_context(t, logs, id, ordered, time) ==
    [current_sample_size |-> current_sample_size(logs, id),
     current_sample_size_percent |->
         (current_sample_size(logs, id) * 100) \div t.sample_size,
     control_conversions |-> control_conversions(logs, id),
     control_participants |-> control_participants(logs, id),
     control_conversions_percent |->
         conversions_percent(control_conversions(logs, id),
                             control_participants(logs, id)),
     treatment_conversions |-> treatment_conversions(logs, id),
     treatment_participants |-> treatment_participants(logs, id),
     treatment_conversions_percent |->
         conversions_percent(treatment_conversions(logs, id),
                             treatment_participants(logs, id)),
     control_is_winner |-> t.winning_variant = Some(CONTROL),
     treatment_is_winner |-> t.winning_variant = Some(TREATMENT),
     estimated_completion_date |-> estimated_completion_date(t, logs, id, time),
     time_series |-> time_series(ordered),
     action_menu |-> AbTestActionMenu(t.status)]

\* Line 293 divides by ab_test.sample_size
progress_get(t, logs, id, ordered, time) ==
    IF t.sample_size = 0
    THEN Response("ZeroDivisionError", "none", NoContext)
    ELSE Response("render", "none", progress_context(t, logs, id, ordered, time))

\* ProgressGet that counts the viewer as a participant of the control
ProgressGet_CountsViewer(id) ==
    /\ request' = Request("progress", "GET", id, ab_tests[id].page, {})
    /\ \E ordered \in OrderByDateHour(hourly_logs, id) :
           response' = progress_get(ab_tests[id], hourly_logs, id, ordered, now)
    /\ hourly_logs' = add_participant(hourly_logs, id, CONTROL, now)
    /\ UNCHANGED <<ab_tests, now, requests, running_calls>>

ProgressGet(id) ==
    /\ request' = Request("progress", "GET", id, ab_tests[id].page, {})
    /\ \E ordered \in OrderByDateHour(hourly_logs, id) :
           response' = progress_get(ab_tests[id], hourly_logs, id, ordered, now)
    /\ UNCHANGED <<ab_tests, hourly_logs, now, requests, running_calls>>

-----------------------------------------------------------------------------
(* The temporary ingestion helpers (views.py 331-347) *)

\* Lines 335-336: one add_participant() per element of variants, the
\* variants the model class assigns
RECURSIVE add_participants(_, _, _, _, _)
add_participants(logs, id, variants, i, time) ==
    IF i > Len(variants) THEN logs
    ELSE add_participants(add_participant(logs, id, variants[i], time),
                          id, variants, i + 1, time)

\* Lines 344-345: one log_conversion(variant, time) per element of times
RECURSIVE log_conversions(_, _, _, _, _)
log_conversions(logs, id, variant, times, i) ==
    IF i > Len(times) THEN logs
    ELSE log_conversions(log_conversion(logs, id, variant, times[i]),
                         id, variant, times, i + 1)

\* range(int(ab_test.sample_size / 10))
LoopCount(t) == t.sample_size \div 10

\* The rows' participants and conversions, all together
Events(logs) == SumOf(logs, "participants") + SumOf(logs, "conversions")

WithinBounds(logs) == Events(logs) <= MaxEvents

AddTestParticipants(id) ==
    /\ \E variants \in [1..LoopCount(ab_tests[id]) -> Variants] :
           hourly_logs' = add_participants(hourly_logs, id, variants, 1, now)
    /\ WithinBounds(hourly_logs')
    /\ running_calls' =
           [running_calls EXCEPT ![id] =
               IF ab_tests[id].status = RUNNING
               THEN @ + LoopCount(ab_tests[id]) ELSE @]
    /\ request' = Request("add_test_participants", "GET", id, ab_tests[id].page, {})
    /\ response' = Response("redirect", "none", NoContext)
    /\ UNCHANGED <<ab_tests, now, requests>>

\* timezone.now() - timedelta(days=randint(1, 20), hours=randint(0, 24)),
\* with the draws kept to 1..MaxBack days and 0..MaxBack hours
ConversionTimes(time) ==
    {time - 24 * d - h : d \in 1..MaxBack, h \in 0..MaxBack}

AddTestConversions(id, variant) ==
    /\ \E times \in [1..LoopCount(ab_tests[id]) -> ConversionTimes(now)] :
           hourly_logs' = log_conversions(hourly_logs, id, variant, times, 1)
    /\ WithinBounds(hourly_logs')
    /\ request' = Request("add_test_conversions", "GET", id, ab_tests[id].page,
                        {variant})
    /\ response' = Response("redirect", "none", NoContext)
    /\ UNCHANGED <<ab_tests, now, requests, running_calls>>

-----------------------------------------------------------------------------
(* The clock *)

StartTime == 24 * (MaxBack + 1)

\* Time passes: to the next observed hour of the day, or by a day
Tick ==
    /\ \/ Hour(now) < MaxHour /\ now' = now + 1
       \/ Date(now) < Date(StartTime) + MaxDate /\ now' = now + 24
    /\ UNCHANGED <<ab_tests, hourly_logs, request, response, requests, running_calls>>

-----------------------------------------------------------------------------------------------------------------------------------------------------
(* The life cycle of the pages' tests: the handlers run one at a time *)

NoRequest == Request("none", "GET", 0, 0, {})
NoResponse == Response("none", "none", NoContext)

Init ==
    /\ ab_tests = <<>>
    /\ hourly_logs = {}
    /\ now = StartTime
    /\ request = NoRequest
    /\ response = NoResponse
    /\ requests = <<>>
    /\ running_calls = <<>>

Next ==
    \/ \E r \in SameSizeAddFormRequests : AddForm(r)
    \/ \E id \in TestIds, post \in Posts : ProgressPost(id, post)
    \/ Tick

Spec == Init /\ [][Next]_vars

-----------------------------------------------------------------------------
(* One test, its events and its statistics: the handlers run one at a time *)

\* The test is as add_form saved it, with any sample size the form takes
InitStats ==
    /\ \E sample_size \in SampleSizes : ab_tests = <<NewAbTest(1, sample_size)>>
    /\ hourly_logs = {}
    /\ now = StartTime
    /\ request = NoRequest
    /\ response = NoResponse
    /\ requests = <<>>
    /\ running_calls = <<0>>

NextStats ==
    \/ \E id \in TestIds, post \in Posts : ProgressPost(id, post)
    \/ \E id \in TestIds : ProgressGet(id)
    \/ \E id \in TestIds : AddTestParticipants(id)
    \/ \E id \in TestIds, variant \in Variants : AddTestConversions(id, variant)
    \/ Tick

SpecStats == InitStats /\ [][NextStats]_vars

-----------------------------------------------------------------------------
(* The time series as a function of the table: one running test whose rows *)
(* are drawn, at most one a (date, hour, variant)                          *)

SeriesHours == MaxHour + 1
SeriesKeys == (MaxDate + 2) * SeriesHours * 2

\* The k-th bucket, in the order of date, hour and variant, with c
\* conversions; a row without conversions was made by a participant
DrawnRow(k, c) ==
    [ab_test |-> 1, date |-> k \div (SeriesHours * 2),
     hour |-> (k \div 2) % SeriesHours,
     variant |-> IF k % 2 = 0 THEN CONTROL ELSE TREATMENT,
     participants |-> IF c = 0 THEN 1 ELSE 0, conversions |-> c]

\* The table of the rows of n buckets, in increasing order, with counts
DrawnTable(n, keys, counts) == {DrawnRow(keys[i], counts[i]) : i \in 1..n}

InitSeries ==
    /\ ab_tests = <<start(NewAbTest(1, 10 * MaxSampleTens), 0)>>
    /\ \E n \in 0..MaxRows :
          \E keys \in [1..n -> 0..(SeriesKeys - 1)],
             counts \in [1..n -> 0..MaxConversions] :
             /\ \A i \in 1..(n - 1) : keys[i] < keys[i + 1]
             /\ hourly_logs = DrawnTable(n, keys, counts)
    /\ now = 24 * (MaxDate + 1) + MaxHour
    /\ request = NoRequest
    /\ response = NoResponse
    /\ requests = <<>>
    /\ running_calls = <<0>>

NextSeries == \E id \in TestIds : ProgressGet(id)

SpecSeries == InitSeries /\ [][NextSeries]_vars

-----------------------------------------------------------------------------
(* The handlers of add_form and progress interleaved: each read and each    *)
(* write of the database is a step of its own, and nothing in views.py      *)
(* makes two of them one transaction                                        *)

Workers == 1..MaxWorkers

\* A worker between requests
Idle ==
    [pc |-> "idle", page |-> 0, sample_size |-> 0, start_posted |-> FALSE,
     id |-> 0, loaded |-> NewAbTest(0, 0)]

\* add_form up to line 101: the checks read the table; the request that
\* passes them with a valid POST goes on to save
AddFormChecks(w, r) ==
    LET outcome == add_ab_test_checks(ab_tests, r.page, r.can_edit, r.has_perm,
                                      r.page_ready)
        saves == outcome = "ok" /\ r.method = "POST" /\ r.form_valid
    IN  /\ requests[w].pc = "idle"
        /\ requests' =
              [requests EXCEPT ![w] =
                  IF saves
                  THEN [Idle EXCEPT !.pc = "add_form_save", !.page = r.page,
                                    !.sample_size = r.sample_size,
                                    !.start_posted = r.start_posted]
                  ELSE Idle]
        /\ IF saves
           THEN UNCHANGED <<request, response>>
           ELSE /\ request' = Request("add_form", r.method, 0, r.page, {})
                /\ response' = IF outcome # "ok" THEN ChecksResponse(outcome)
                               ELSE Response("render", "none", NoContext)
        /\ UNCHANGED <<ab_tests, hourly_logs, now, running_calls>>

\* Line 107: form.save() inserts the test, in Draft
AddFormSave(w) ==
    /\ requests[w].pc = "add_form_save"
    /\ Len(ab_tests) < MaxTests
    /\ ab_tests' = Append(ab_tests,
                          NewAbTest(requests[w].page, requests[w].sample_size))
    /\ running_calls' = Append(running_calls, 0)
    /\ IF requests[w].start_posted
       THEN /\ requests' = [requests EXCEPT ![w].pc = "add_form_start",
                                            ![w].id = Len(ab_tests) + 1]
            /\ UNCHANGED <<request, response>>
       ELSE /\ requests' = [requests EXCEPT ![w] = Idle]
            /\ request' = Request("add_form", "POST", 0, requests[w].page, {})
            /\ response' = Response("redirect", "none", NoContext)
    /\ UNCHANGED <<hourly_logs, now>>

\* Lines 109-112: ab_test.start() on the test just saved
AddFormStart(w) ==
    /\ requests[w].pc = "add_form_start"
    /\ ab_tests' = [ab_tests EXCEPT ![requests[w].id] = start(@, now)]
    /\ requests' = [requests EXCEPT ![w] = Idle]
    /\ request' = Request("add_form", "POST", 0, requests[w].page, {"start"})
    /\ response' = Response("redirect", "none", NoContext)
    /\ UNCHANGED <<hourly_logs, now, running_calls>>

\* The caller of progress loads the test it passes as ab_test
ProgressLoad(w, id) ==
    /\ requests[w].pc = "idle"
    /\ requests' = [requests EXCEPT ![w] =
                       [Idle EXCEPT !.pc = "progress", !.id = id,
                                    !.page = ab_tests[id].page,
                                    !.loaded = ab_tests[id]]]
    /\ UNCHANGED <<ab_tests, hourly_logs, now, request, response, running_calls>>

\* Lines 212-237 on the loaded test: the status checked is the one loaded,
\* and the method called saves the loaded test
ProgressApply(w, post) ==
    LET done == progress_post(requests[w].loaded, post, now)
    IN  /\ requests[w].pc = "progress"
        /\ ab_tests' = IF done.ab_test # requests[w].loaded
                       THEN [ab_tests EXCEPT ![requests[w].id] = done.ab_test]
                       ELSE ab_tests
        /\ requests' = [requests EXCEPT ![w] = Idle]
        /\ request' = Request("progress", "POST", requests[w].id,
                              requests[w].page, post)
        /\ response' = Response("redirect", done.message, NoContext)
        /\ UNCHANGED <<hourly_logs, now, running_calls>>

InitConc ==
    /\ ab_tests = <<>>
    /\ hourly_logs = {}
    /\ now = StartTime
    /\ request = NoRequest
    /\ response = NoResponse
    /\ requests = [w \in Workers |-> Idle]
    /\ running_calls = <<>>

NextConc ==
    \/ \E w \in Workers, r \in SameSizeAddFormRequests : AddFormChecks(w, r)
    \/ \E w \in Workers : AddFormSave(w)
    \/ \E w \in Workers : AddFormStart(w)
    \/ \E w \in Workers, id \in TestIds : ProgressLoad(w, id)
    \/ \E w \in Workers, post \in Posts : ProgressApply(w, post)

SpecConc == InitConc /\ [][NextConc]_vars

-----------------------------------------------------------------------------
(* The life cycle: claims C1 to C3, under Spec *)

\* C1: through the progress actions, a test in Draft is next in Running or
\* Finished (or still in Draft), and the status of a test in Finished never
\* changes.
C1_DraftAndFinished ==
    [][\A id \in TestIds :
          /\ ab_tests[id].status = DRAFT
                => ab_tests'[id].status \in {DRAFT, RUNNING, FINISHED}
          /\ ab_tests[id].status = FINISHED
                => ab_tests'[id].status = FINISHED]_vars

\* A start was asked of a finished test that had been running, and refused
C1_Witness ==
    /\ request.view = "progress"
    /\ request.post = {"action-start-ab-test"}
    /\ response.message = "error"
    /\ ab_tests[request.ab_test].status = FINISHED
    /\ ab_tests[request.ab_test].first_started_at # None

\* The legal table of the claim: the statuses a request of one action may be
\* made in; a request of no known action has none
LegalIn(post) ==
    IF post = {"action-start-ab-test"} \/ post = {"action-restart-ab-test"}
    THEN {DRAFT, PAUSED}
    ELSE IF post = {"action-end-ab-test"} THEN {DRAFT, RUNNING, PAUSED}
    ELSE IF post = {"action-pause-ab-test"} THEN {RUNNING}
    ELSE {}

\* The step is progress answering a POST of at most one action
TransitionRequested ==
    /\ now' = now
    /\ request'.view = "progress"
    /\ request'.method = "POST"
    /\ Cardinality(request'.post) <= 1

\* C2: a progress request outside the legal table is answered with an error
\* message and leaves the row of the test (status, timestamps, winning
\* variant) and every other row as it was; and a test gets into Paused only
\* from Running.
C2_IllegalRequestRejected ==
    [][/\ ( /\ TransitionRequested
            /\ ab_tests[request'.ab_test].status \notin LegalIn(request'.post) )
          => /\ response'.message = "error"
             /\ ab_tests' = ab_tests
       /\ \A id \in TestIds :
             ( ab_tests'[id].status = PAUSED /\ ab_tests[id].status # PAUSED )
             => ab_tests[id].status = RUNNING]_vars

\* A pause was refused on a test that is in Draft
C2_Witness ==
    /\ request.view = "progress"
    /\ request.post = {"action-pause-ab-test"}
    /\ response.message = "error"
    /\ ab_tests[request.ab_test].status = DRAFT

\* The tests of a page that are in Draft, Running or Paused
Active(page) ==
    {id \in TestIds : /\ ab_tests[id].page = page
                      /\ ab_tests[id].status \in {DRAFT, RUNNING, PAUSED}}

\* C3: a page never has two tests in Draft, Running or Paused, and add_form
\* for a page that has one creates and starts nothing and answers with an
\* error.
C3_OneActiveTestPerPage ==
    /\ [](\A page \in Pages : Cardinality(Active(page)) <= 1)
    /\ [][( /\ now' = now
            /\ request'.view = "add_form"
            /\ Active(request'.page) # {} )
          => /\ ab_tests' = ab_tests
             /\ \/ response'.kind = "PermissionDenied"
                \/ response'.kind = "redirect" /\ response'.message = "error"]_vars

\* A create-and-start was refused while the page's second test was active,
\* its first one finished
C3_Witness ==
    /\ Len(ab_tests) = 2
    /\ ab_tests[1].page = ab_tests[2].page
    /\ ab_tests[1].status = FINISHED
    /\ ab_tests[2].status \in {RUNNING, PAUSED}
    /\ request.view = "add_form"
    /\ request.page = ab_tests[1].page
    /\ request.post = {"start"}
    /\ response.message = "error"

-----------------------------------------------------------------------------
(* Events and statistics: claims C5, C6 and C10, under SpecStats *)

\* C5: the current sample size of a test is the number of add_participant
\* calls made for it while it was Running.
C5_SampleSizeCountsRunningCalls ==
    \A id \in TestIds : current_sample_size(hourly_logs, id) = running_calls[id]

\* The step is one of the ingestion helpers
IngestionRequested ==
    /\ now' = now
    /\ request'.view \in {"add_test_participants", "add_test_conversions"}

\* C6: an ingestion request for a test that is not Running is refused with
\* ExperimentNotActive and leaves the table of hourly logs as it was.
C6_IngestionOnlyWhileRunning ==
    [][( /\ IngestionRequested
         /\ ab_tests[request'.ab_test].status # RUNNING )
       => /\ hourly_logs' = hourly_logs
          /\ response'.kind = "ExperimentNotActive"]_vars

\* C10: a GET of progress never raises; for a test without rows it renders a
\* sample size of 0, conversion rates of 0, no estimated completion date and
\* an empty time series.
C10_StatisticsNeverFail ==
    ( request.view = "progress" /\ request.method = "GET" )
    => /\ response.kind = "render"
       /\ {l \in hourly_logs : l.ab_test = request.ab_test} = {}
             => /\ response.context.current_sample_size = 0
                /\ response.context.control_conversions_percent = 0
                /\ response.context.treatment_conversions_percent = 0
                /\ response.context.estimated_completion_date = None
                /\ response.context.time_series = <<>>

-----------------------------------------------------------------------------
(* The time series: claims C7 to C9, under SpecSeries *)

\* progress has rendered the statistics of a test
Rendered ==
    /\ request.view = "progress"
    /\ request.method = "GET"
    /\ response.kind = "render"

LogDates(id) == {l.date : l \in {x \in hourly_logs : x.ab_test = id}}
FirstDate(id) == CHOOSE d \in LogDates(id) : \A e \in LogDates(id) : d <= e
LastDate(id) == CHOOSE d \in LogDates(id) : \A e \in LogDates(id) : e <= d

\* C7: the rendered time series has one entry a calendar day from the date
\* of the first row to the date of the last, in order, and neither
\* cumulative column ever decreases.
C7_OneEntryADay ==
    Rendered =>
        LET series == response.context.time_series
            id == request.ab_test
        IN  /\ LogDates(id) = {} => series = <<>>
            /\ LogDates(id) # {} =>
                  /\ Len(series) = LastDate(id) - FirstDate(id) + 1
                  /\ \A i \in 1..Len(series) :
                        series[i].date = FirstDate(id) + i - 1
            /\ \A i \in 1..(Len(series) - 1) :
                  /\ series[i].control <= series[i + 1].control
                  /\ series[i].treatment <= series[i + 1].treatment

\* A series over a day without rows, after which a conversion was logged
C7_Witness ==
    /\ Rendered
    /\ \E i \in 2..(Len(response.context.time_series) - 1) :
          /\ response.context.time_series[i].date \notin LogDates(request.ab_test)
          /\ response.context.time_series[1].control
                < response.context.time_series[Len(response.context.time_series)].control

\* C8: the entry of a day without rows carries the cumulative values of the
\* entry before it.
C8_GapsCarryForward ==
    Rendered =>
        LET series == response.context.time_series
        IN  \A i \in 2..Len(series) :
               series[i].date \notin LogDates(request.ab_test)
               => /\ series[i].control = series[i - 1].control
                  /\ series[i].treatment = series[i - 1].treatment

\* C9: two renderings in a row of the same test over the same table give the
\* same time series.
C9_SameTableSameSeries ==
    [][( /\ Rendered
         /\ Rendered'
         /\ request'.ab_test = request.ab_test
         /\ hourly_logs' = hourly_logs )
       => response'.context.time_series = response.context.time_series]_vars

-----------------------------------------------------------------------------
(* Concurrent requests: claim C4, under SpecConc *)

\* C4: whatever the interleaving of the requests, no page has two tests in
\* Draft, Running or Paused.
C4_NoTwoActiveTests ==
    \A page \in Pages : Cardinality(Active(page)) <= 1

-----------------------------------------------------------------------------
(* The estimate of the completion date: one test that had some rounds of    *)
(* add_test_participants before it was started, then its life cycle and     *)
(* its statistics                                                           *)

\* The rows after rounds calls of add_test_participants (views.py 332-338)
\* at one time, every participant assigned to the control
AfterRounds(t, rounds, time) ==
    add_participants({}, 1, [i \in 1..(rounds * LoopCount(t)) |-> CONTROL], 1, time)

\* The calls that bring the test to its sample size
FullRounds(t) == t.sample_size \div LoopCount(t)

\* The test is as add_form saved it; add_test_participants was called no
\* time, once, up to the sample size, or once more; the clock starts a day
\* before StartTime
InitEstimate ==
    /\ \E sample_size \in SampleSizes \ {0} :
          LET t == NewAbTest(1, sample_size)
          IN  /\ ab_tests = <<t>>
              /\ \E rounds \in {0, 1, FullRounds(t), FullRounds(t) + 1} :
                    hourly_logs = AfterRounds(t, rounds, StartTime - 24)
    /\ now = StartTime - 24
    /\ request = NoRequest
    /\ response = NoResponse
    /\ requests = <<>>
    /\ running_calls = <<0>>

NextEstimate ==
    \/ \E id \in TestIds, post \in Posts : ProgressPost(id, post)
    \/ \E id \in TestIds : ProgressGet(id)
    \/ Tick

SpecEstimate == InitEstimate /\ [][NextEstimate]_vars

-----------------------------------------------------------------------------
(* The estimate: claims C11, C12 and C18, under SpecEstimate *)

\* This step is a GET of progress that rendered the statistics
RendersNow ==
    /\ now' = now
    /\ request'.view = "progress"
    /\ request'.method = "GET"
    /\ response'.kind = "render"

\* The participants of all the rows of a test
ParticipantsOf(id) ==
    SumOf({l \in hourly_logs : l.ab_test = id}, "participants")

\* The whole days since the test was last started
DaysSinceLastStart(id) ==
    IF ab_tests[id].last_started_at = None THEN 0
    ELSE (now - ab_tests[id].last_started_at[1]) \div 24

\* C11: progress renders an estimated completion date if and only if the
\* test is Running, it has at least one participant, and at least one whole
\* day has passed since it was last started.
C11_EstimateIffRunningWithData ==
    [][RendersNow =>
          ( response'.context.estimated_completion_date # None
            <=> /\ ab_tests[request'.ab_test].status = RUNNING
                /\ ParticipantsOf(request'.ab_test) > 0
                /\ DaysSinceLastStart(request'.ab_test) > 0 )]_vars

\* An estimate was rendered for a running test
C11_Witness ==
    /\ Rendered
    /\ response.context.estimated_completion_date # None
    /\ ab_tests[request.ab_test].status = RUNNING
    /\ ParticipantsOf(request.ab_test) > 0
    /\ DaysSinceLastStart(request.ab_test) > 0

\* The test was started, paused and started again at a later time
Restarted(t) ==
    /\ t.status = RUNNING
    /\ t.first_started_at # None
    /\ t.last_started_at # t.first_started_at

C18_EstimateNotInThePast ==
    [][( RendersNow /\ response'.context.estimated_completion_date # None ) =>
          /\ response'.context.estimated_completion_date[1] >= Date(now)
          /\ ab_tests[request'.ab_test].sample_size
                - ParticipantsOf(request'.ab_test) >= 0]_vars

-----------------------------------------------------------------------------
(* The statistics as a read model: claims C13 and C14, under SpecStats *)

\* C13: a GET of progress, whatever it returns, leaves every test (status,
\* timestamps, winning variant) and every row of the hourly logs as they
\* were.
C13_GetChangesNothing ==
    [][( now' = now /\ request'.view = "progress" /\ request'.method = "GET" )
       => /\ ab_tests' = ab_tests
          /\ hourly_logs' = hourly_logs]_vars

\* The statistics of a running test with participants and conversions were
\* rendered
C13_Witness ==
    /\ Rendered
    /\ ab_tests[request.ab_test].status = RUNNING
    /\ response.context.current_sample_size > 0
    /\ response.context.control_conversions
          + response.context.treatment_conversions > 0
    /\ response.context.time_series # <<>>

\* C14: the current sample size that progress renders is the sum of the
\* participants of all the rows of the test, of both variants, whatever the
\* status of the test.
C14_SampleSizeSumsAllRows ==
    [][RendersNow =>
          response'.context.current_sample_size = ParticipantsOf(request'.ab_test)]_vars

\* A sample size made of both variants' rows was rendered for a test that
\* is not running
C14_Witness ==
    /\ Rendered
    /\ ab_tests[request.ab_test].status \in {PAUSED, FINISHED}
    /\ \A variant \in Variants :
          \E l \in hourly_logs :
             l.ab_test = request.ab_test /\ l.variant = variant /\ l.participants > 0
    /\ response.context.current_sample_size = ParticipantsOf(request.ab_test)
    /\ response.context.current_sample_size > response.context.control_participants

-----------------------------------------------------------------------------
(* Concurrent requests to progress: claim C15, under SpecConc *)

\* C15: whatever the interleaving of the requests to progress, each checking
\* the status of the test it loaded, no request to progress changes the
\* status of a test stored as Finished.
C15_FinishedIsTerminal ==
    [][request'.view = "progress" =>
          \A id \in 1..Len(ab_tests) :
             ab_tests[id].status = FINISHED => ab_tests'[id].status = FINISHED]_vars

-----------------------------------------------------------------------------
(* The time series against the aggregates: claim C16, under SpecSeries *)

\* The conversions of a variant in the rows of a test up to a date
ConversionsUpTo(id, variant, date) ==
    SumOf({l \in hourly_logs :
              l.ab_test = id /\ l.variant = variant /\ l.date <= date},
          "conversions")

\* C16: in a rendered time series that is not empty, the last entry holds
\* the conversions of each variant that the aggregates give, and the entry
\* of each day holds all the conversions logged up to and on that day,
\* however many rows the day has.
C16_SeriesAgreesWithAggregates ==
    ( Rendered /\ response.context.time_series # <<>> ) =>
        LET series == response.context.time_series
            id == request.ab_test
        IN  /\ series[Len(series)].control = response.context.control_conversions
            /\ series[Len(series)].treatment = response.context.treatment_conversions
            /\ \A i \in 1..Len(series) :
                  /\ series[i].control = ConversionsUpTo(id, CONTROL, series[i].date)
                  /\ series[i].treatment = ConversionsUpTo(id, TREATMENT, series[i].date)

-----------------------------------------------------------------------------
(* The action menu against the POST of progress: claim C17, under           *)
(* SpecEstimate                                                             *)

\* The actions a rendered menu offers: its default item and its other items
Offered(menu) ==
    {menu.default_item[i] : i \in 1..Len(menu.default_item)}
       \cup {menu.menu_items[i] : i \in 1..Len(menu.menu_items)}

\* The status each action of the menu leads to
Target(name) ==
    CASE name = "action-start-ab-test" -> RUNNING
      [] name = "action-restart-ab-test" -> RUNNING
      [] name = "action-end-ab-test" -> FINISHED
      [] name = "action-pause-ab-test" -> PAUSED

\* The transitions of the life cycle
LegalTransitions ==
    {<<DRAFT, RUNNING>>, <<DRAFT, FINISHED>>, <<RUNNING, PAUSED>>,
     <<RUNNING, FINISHED>>, <<PAUSED, RUNNING>>, <<PAUSED, FINISHED>>}

\* C17: the menu that progress renders offers Start only in Draft, Restart
\* only in Paused, End only in Draft, Running and Paused, and Pause only in
\* Running, so that in Finished it offers nothing and has no default item;
\* and a POST of an action that the menu offers for the status of the test
\* is not refused and makes the transition of that action, a legal one.
C17_MenuAgreesWithProgress ==
    [][/\ RendersNow =>
             LET status == ab_tests[request'.ab_test].status
                 menu == response'.context.action_menu
             IN  /\ "action-start-ab-test" \in Offered(menu) <=> status = DRAFT
                 /\ "action-restart-ab-test" \in Offered(menu) <=> status = PAUSED
                 /\ "action-end-ab-test" \in Offered(menu)
                       <=> status \in {DRAFT, RUNNING, PAUSED}
                 /\ "action-pause-ab-test" \in Offered(menu) <=> status = RUNNING
                 /\ status = FINISHED
                       => menu.default_item = None /\ menu.menu_items = <<>>
       /\ \A name \in ActionKeys :
             ( /\ now' = now
               /\ request'.view = "progress"
               /\ request'.method = "POST"
               /\ request'.post = {name}
               /\ name \in Offered(AbTestActionMenu(ab_tests[request'.ab_test].status)) )
             => /\ response'.message # "error"
                /\ ab_tests'[request'.ab_test].status = Target(name)
                /\ <<ab_tests[request'.ab_test].status, Target(name)>>
                      \in LegalTransitions]_vars

\* The menu without items was rendered for a test that was started, paused,
\* restarted and ended, each time by an action its menu offered
C17_Witness ==
    /\ Rendered
    /\ ab_tests[request.ab_test].status = FINISHED
    /\ ab_tests[request.ab_test].first_started_at # None
    /\ ab_tests[request.ab_test].last_started_at
          # ab_tests[request.ab_test].first_started_at
    /\ response.context.action_menu.default_item = None
    /\ response.context.action_menu.menu_items = <<>>

====
